---- MODULE Spec2Model ----
(***************************************************************************)
(* Fleet compliance reconciliation of standard-ci: scanning member repos   *)
(* for their declared pin (scanner.py), remediating drifted repos by       *)
(* opening update requests (auto_update.py) and resolving the canonical    *)
(* pin through two tiers (updater.py).                                     *)
(*                                                                         *)
(* Texts are modelled as sequences of tokens [k, v]: an occurrence of a    *)
(* sha, of the marker "tag: <t>", of the marker "# <t>", a line ending or  *)
(* other text.  str.replace(old, new) acts on the tokens that spell old.   *)
(***************************************************************************)
EXTENDS Integers, Sequences, FiniteSets, TLC

\* ------------------------------------------------------------------ bounds
NumRepos == 2
MaxRuns == 2
MaxFaults == 1
MaxInputs == 2

None == "None"
Repos == 1..NumRepos

\* ------------------------------------------------- canonical pins (inputs)
Pins == { [tag |-> "v1", sha |-> "s1"], [tag |-> "v2", sha |-> "s2"] }

\* --------------------------------------------------------- texts and files
Tok(k, v) == [k |-> k, v |-> v]
LF == Tok("eol", "LF")
CRLF == Tok("eol", "CRLF")
ShaTok(s) == Tok("sha", s)
CfgTag(t) == Tok("tag: ", t)
WfTag(t) == Tok("# ", t)
Text(x) == Tok("text", x)

Path(dir, name, ext) == [dir |-> dir, name |-> name, ext |-> ext]
ConfigPath == Path("", ".standard", ".yml")
WfDir == ".github/workflows"
WfYml == Path(WfDir, "ci", ".yml")
WfYaml == Path(WfDir, "lint", ".yaml")
WfTxt == Path(WfDir, "notes", ".txt")
WfNested == Path(".github/workflows/sub", "deep", ".yml")
Readme == Path("", "README", ".md")

\* open(path).read() in text mode: universal newlines turn "\r\n" into "\n"
ReadText(bytes) ==
  [n \in 1..Len(bytes) |-> IF bytes[n] = CRLF THEN LF ELSE bytes[n]]

\* open(path, "w").write(content) on POSIX: "\n" is written as it is
WriteText(content) == content

\* str.replace(old, new)
Replace(content, old, new) ==
  [n \in 1..Len(content) |-> IF content[n] = old THEN new ELSE content[n]]

\* `old in content`
Contains(content, old) == \E n \in 1..Len(content) : content[n] = old

\* auto_update.py:118-127, the declared-state file
SubstituteConfig(files, old_sha, old_tag, new_sha, new_tag) ==
  IF ConfigPath \in DOMAIN files
  THEN LET c0 == ReadText(files[ConfigPath])
           c1 == IF old_sha # "" THEN Replace(c0, ShaTok(old_sha), ShaTok(new_sha)) ELSE c0
           c2 == Replace(c1, CfgTag(old_tag), CfgTag(new_tag))
       IN [files EXCEPT ![ConfigPath] = WriteText(c2)]
  ELSE files

\* auto_update.py:135-147, one workflow file
SubstituteWorkflow(bytes, old_sha, old_tag, new_sha, new_tag) ==
  LET c0 == ReadText(bytes)
      hitSha == old_sha # "" /\ Contains(c0, ShaTok(old_sha))
      c1 == IF hitSha THEN Replace(c0, ShaTok(old_sha), ShaTok(new_sha)) ELSE c0
      hitTag == old_tag # "" /\ Contains(c1, WfTag(old_tag))
      c2 == IF hitTag THEN Replace(c1, WfTag(old_tag), WfTag(new_tag)) ELSE c1
  IN IF hitSha \/ hitTag THEN WriteText(c2) ELSE bytes

\* auto_update.py:129-134, which directory entries are rewritten
IsWorkflowFile(p) == p.dir = WfDir /\ (p.ext = ".yml" \/ p.ext = ".yaml")

\* auto_update.py:118-147, the whole substitution over the working copy
Substitute(files, old_sha, old_tag, new_sha, new_tag) ==
  LET f1 == SubstituteConfig(files, old_sha, old_tag, new_sha, new_tag)
  IN [p \in DOMAIN f1 |->
        IF IsWorkflowFile(p)
        THEN SubstituteWorkflow(f1[p], old_sha, old_tag, new_sha, new_tag)
        ELSE f1[p]]

\* ------------------------------------------------ repositories (the fleet)
\* A member repo: the declared state its .standard.yml parses to (NoConfig
\* when the file is absent; a key may be missing) and the files a clone yields.
NoConfig == [absent |-> TRUE]
Unconfigured ==
  [config |-> NoConfig,
   files |-> (Readme :> <<Text("hello"), LF>>)]
Pinned ==
  [config |-> [tag |-> "v0", sha |-> "s1", workflows |-> <<"cpp-quality">>],
   files |-> (ConfigPath :> <<CfgTag("v0"), LF, ShaTok("s1"), LF>>)
          @@ (WfYml :> <<ShaTok("s1"), WfTag("v0"), LF>>)
          @@ (WfYaml :> <<Text("on: push"), CRLF>>)
          @@ (WfTxt :> <<ShaTok("s1"), LF>>)
          @@ (WfNested :> <<ShaTok("s1"), LF>>)
          @@ (Readme :> <<ShaTok("s1"), CRLF>>)]
TagOnly ==
  [config |-> [tag |-> "v1", workflows |-> <<"cpp-quality">>],
   files |-> (ConfigPath :> <<CfgTag("v1"), LF>>)
          @@ (WfYml :> <<Text("on: push"), LF>>)]
UnpinnedCrlf ==
  [config |-> [workflows |-> <<>>],
   files |-> (ConfigPath :> <<Text("workflows: []"), CRLF>>)]
RepoKinds == {"Unconfigured", "Pinned", "TagOnly", "UnpinnedCrlf"}
KindOf(kind) ==
  CASE kind = "Unconfigured" -> Unconfigured
    [] kind = "Pinned" -> Pinned
    [] kind = "TagOnly" -> TagOnly
    [] kind = "UnpinnedCrlf" -> UnpinnedCrlf

\* dict.get(key, default)
Get(d, key, default) == IF key \in DOMAIN d THEN d[key] ELSE default

\* ---------------------------------------------------------------- scanner
\* scan_repo reporting the drift with the canonical tag on both sides
scan_repo_one_tag(repo, config, latest_sha, latest_tag) ==
  IF config = NoConfig
  THEN [repo |-> repo, has_config |-> FALSE, current_tag |-> None,
        current_sha |-> None, up_to_date |-> FALSE, workflows |-> <<>>,
        issues |-> << [kind |-> "No .standard.yml found"] >>]
  ELSE LET tag == Get(config, "tag", "")
           sha == Get(config, "sha", "")
       IN [repo |-> repo, has_config |-> TRUE, current_tag |-> tag,
           current_sha |-> sha, up_to_date |-> (sha = latest_sha),
           workflows |-> Get(config, "workflows", <<>>),
           issues |-> IF sha = latest_sha THEN <<>>
                      ELSE << [kind |-> "SHA drift", from |-> latest_tag,
                               to |-> latest_tag] >>]

\* scan_repo deciding currency by the tag text instead of the sha
scan_repo_by_tag(repo, config, latest_sha, latest_tag) ==
  IF config = NoConfig
  THEN [repo |-> repo, has_config |-> FALSE, current_tag |-> None,
        current_sha |-> None, up_to_date |-> FALSE, workflows |-> <<>>,
        issues |-> << [kind |-> "No .standard.yml found"] >>]
  ELSE LET tag == Get(config, "tag", "")
           sha == Get(config, "sha", "")
       IN [repo |-> repo, has_config |-> TRUE, current_tag |-> tag,
           current_sha |-> sha, up_to_date |-> (tag = latest_tag),
           workflows |-> Get(config, "workflows", <<>>),
           issues |-> IF tag = latest_tag THEN <<>>
                      ELSE << [kind |-> "SHA drift", from |-> tag, to |-> latest_tag] >>]

\* scanner.py:84-118; config is what fetch_standard_config returned
scan_repo(repo, config, latest_sha, latest_tag) ==
  IF config = NoConfig
  THEN [repo |-> repo, has_config |-> FALSE, current_tag |-> None,
        current_sha |-> None, up_to_date |-> FALSE, workflows |-> <<>>,
        issues |-> << [kind |-> "No .standard.yml found"] >>]
  ELSE LET tag == Get(config, "tag", "")
           sha == Get(config, "sha", "")
       IN [repo |-> repo, has_config |-> TRUE, current_tag |-> tag,
           current_sha |-> sha, up_to_date |-> (sha = latest_sha),
           workflows |-> Get(config, "workflows", <<>>),
           issues |-> IF sha = latest_sha THEN <<>>
                      ELSE << [kind |-> "SHA drift", from |-> tag, to |-> latest_tag] >>]

\* ------------------------------------------------------------ enumeration
\* An entry of the repository listing; flag is "source", "archived" or "fork"
Flags == {"source", "archived", "fork"}
Entry(r, flag) ==
  [full_name |-> r, archived |-> (flag = "archived"), fork |-> (flag = "fork"),
   default_branch |-> "main"]
\* One part of a Link header: <url>; rel="rel".  A url is a page number.
LinkPart(url, rel) == [url |-> url, rel |-> rel]
FirstUrl == 1
NoUrl == 0

\* The pages the listing endpoint serves for the fleet: all members on one
\* page without a Link header, or one member per page with the Link header
\* the service sends (prev, next, last, first)
SinglePage(flags) ==
  << [data |-> [r \in 1..NumRepos |-> Entry(r, flags[r])], link |-> << >>] >>
LinkOf(k) ==
  (IF k > 1 THEN << LinkPart(k - 1, "prev") >> ELSE << >>)
  \o (IF k < NumRepos THEN << LinkPart(k + 1, "next"), LinkPart(NumRepos, "last") >>
      ELSE << >>)
  \o (IF k > 1 THEN << LinkPart(1, "first") >> ELSE << >>)
PagePerRepo(flags) ==
  [k \in 1..NumRepos |-> [data |-> << Entry(k, flags[k]) >>, link |-> LinkOf(k)]]
Pagings == {"single", "each"}
PagesOf(world) ==
  IF world.paging = "single" THEN SinglePage(world.flags)
  ELSE PagePerRepo(world.flags)
\* owner: the name is an organisation, a user, or neither
Owners == {"org", "user", "none"}
ScanWorlds == [owner : Owners, paging : Pagings, flags : [Repos -> Flags]]

\* What _api_get does for a page of a listing endpoint (1: /orgs/, 2:
\* /users/): the page, or HTTP 404 where the service has no such owner
Served(world, endpoint, url) ==
  IF (endpoint = 1 /\ world.owner = "org")
     \/ (endpoint = 2 /\ world.owner \in {"org", "user"})
  THEN [kind |-> "ok", data |-> PagesOf(world)[url].data,
        link |-> PagesOf(world)[url].link]
  ELSE [kind |-> "404", data |-> << >>, link |-> << >>]
\* and what can go wrong with any request: an HTTP error status, no
\* connection
HttpFaults == {"404", "500", "URLError"}
Fault(kind) == [kind |-> kind, data |-> << >>, link |-> << >>]

\* scanner.py:30-34: the url of the last part that says rel="next", None
\* without one
RECURSIVE NextUrl(_, _)
NextUrl(link, url) ==
  IF link = << >> THEN url
  ELSE NextUrl(Tail(link), IF Head(link).rel = "next" THEN Head(link).url ELSE url)

\* the filter keeping forks
IsSourceOrFork(r) == ~r.archived
\* scanner.py:51
IsSource(r) == ~(r.archived \/ r.fork)
\* scanner.py:49-57
FilterRepos(raw) ==
  LET kept == SelectSeq(raw, IsSource)
  IN [k \in 1..Len(kept) |->
        [full_name |-> kept[k].full_name,
         default_branch |-> kept[k].default_branch]]
\* the items of the first endpoint kept for the second
items_kept(items) == items
\* scanner.py:25: every call of _api_get_paginated starts with items = []
items_at_start(items) == << >>
\* the except clause switching on every error
SwitchesOnAnyError(kind) == TRUE
\* scanner.py:58-61: HTTPError with code 404 moves to the next endpoint
SwitchesEndpoint(kind) == kind = "404"

\* What the contents API answers for .standard.yml of repo files: the
\* content, or HTTP 404 without the file
Contents(files) ==
  IF ConfigPath \in DOMAIN files
  THEN [kind |-> "ok", content |-> files[ConfigPath]]
  ELSE [kind |-> "404", content |-> << >>]
ContentFaults == {"500", "URLError"}
\* config.py (not in the source tree): the declared state a configuration
\* text parses to
read_config_string(content) ==
  KindOf(CHOOSE k \in RepoKinds :
           /\ ConfigPath \in DOMAIN KindOf(k).files
           /\ KindOf(k).files[ConfigPath] = content).config
\* the handler returning None on every error
fetch_standard_config_lenient(resp) ==
  IF resp.kind = "ok"
  THEN [raised |-> "none", config |-> read_config_string(resp.content)]
  ELSE [raised |-> "none", config |-> NoConfig]
\* scanner.py:65-81
fetch_standard_config(resp) ==
  IF resp.kind = "404" THEN [raised |-> "none", config |-> NoConfig]
  ELSE IF resp.kind # "ok" THEN [raised |-> resp.kind, config |-> NoConfig]
  ELSE [raised |-> "none", config |-> read_config_string(resp.content)]

\* results.append at the front
prepend_result(results, result) == << result >> \o results
\* scanner.py:133
append_result(results, result) == Append(results, result)

\* ------------------------------------------------------------ remediation
Tags == {p.tag : p \in Pins}
\* auto_update.py:69
BranchName(tag) == <<"standard-ci/update-", tag>>
Branches == {BranchName(t) : t \in Tags}

Cmds == {"query", "clone", "checkout", "status", "add", "commit", "push", "create"}
CheckedCmds == {"clone", "checkout", "add", "commit", "push"}

\* What the environment does to one call of _update_single_repo: every
\* command succeeds (step = "none"), or the command `step` is the first one
\* to go wrong: it exits non-zero ("exit") or the call raises ("raise":
\* TimeoutExpired, OSError, a decoding error).  r2 and r3 say whether the
\* second and third execution of a command that exited non-zero succeed.
NoFault == [step |-> "none", how |-> "exit", r2 |-> FALSE, r3 |-> FALSE]
Scenarios ==
  {NoFault}
  \cup {[step |-> s, how |-> "raise", r2 |-> FALSE, r3 |-> FALSE] :
          s \in CheckedCmds \cup {"subst", "status", "create"}}
  \cup {[step |-> s, how |-> "exit", r2 |-> a, r3 |-> b] :
          s \in CheckedCmds, a \in BOOLEAN, b \in BOOLEAN}
  \cup {[step |-> s, how |-> "exit", r2 |-> FALSE, r3 |-> FALSE] :
          s \in {"status", "create"}}

\* Outcomes of `gh pr list`
QueryOutcomes == {"ok", "exit", "badjson", "raise"}

\* auto_update.py:17-26: a command that exits non-zero is executed twice
\* more before RuntimeError is raised; the effect of an execution that
\* succeeds is applied
run_checked(cmd, scn) ==
  [raised |-> scn.step = cmd,
   execs |-> IF scn.step = cmd /\ scn.how = "exit" THEN 3 ELSE 1,
   applied |-> IF scn.step = cmd THEN scn.how = "exit" /\ (scn.r2 \/ scn.r3)
               ELSE TRUE]

\* auto_update.py:29-45
check_existing_pr(open, q) ==
  [raised |-> q = "raise",
   found |-> IF q = "ok" THEN open > 0 ELSE FALSE]

NoFiles == << >>
NoExecs == [c \in Cmds |-> 0]
Ret(raised, detail, execs, pushed, created, early, work) ==
  [raised |-> raised, detail |-> detail, execs |-> execs, pushed |-> pushed,
   created |-> created, early |-> early, work |-> work]

\* auto_update.py:154-190, after the status check found changes
commit_push_open(execs, work, scn) ==
  LET add == run_checked("add", scn)
      e1 == [execs EXCEPT !["add"] = add.execs]
      commit == run_checked("commit", scn)
      e2 == [e1 EXCEPT !["commit"] = commit.execs]
      push == run_checked("push", scn)
      e3 == [e2 EXCEPT !["push"] = push.execs]
      e4 == [e3 EXCEPT !["create"] = 1]
  IN IF add.raised THEN Ret(TRUE, "add", e1, FALSE, FALSE, FALSE, work)
     ELSE IF commit.raised THEN Ret(TRUE, "commit", e2, FALSE, FALSE, FALSE, work)
     ELSE IF push.raised THEN Ret(TRUE, "push", e3, push.applied, FALSE, FALSE, work)
     ELSE IF scn.step = "create" /\ scn.how = "raise"
          THEN Ret(TRUE, "create", e4, TRUE, FALSE, FALSE, work)
     ELSE Ret(FALSE, "none", e4, TRUE, scn.step # "create", FALSE, work)

\* auto_update.py:104-190
update_single_repo(files, old_sha, old_tag, new_sha, new_tag, scn) ==
  LET clone == run_checked("clone", scn)
      e1 == [NoExecs EXCEPT !["clone"] = clone.execs]
      checkout == run_checked("checkout", scn)
      e2 == [e1 EXCEPT !["checkout"] = checkout.execs]
      e3 == [e2 EXCEPT !["status"] = 1]
  IN IF clone.raised THEN Ret(TRUE, "clone", e1, FALSE, FALSE, FALSE, NoFiles)
     ELSE IF checkout.raised THEN Ret(TRUE, "checkout", e2, FALSE, FALSE, FALSE, NoFiles)
     ELSE IF scn.step = "subst" THEN Ret(TRUE, "subst", e2, FALSE, FALSE, FALSE, NoFiles)
     ELSE LET work == Substitute(files, old_sha, old_tag, new_sha, new_tag)
              \* git status --porcelain prints nothing when it fails or
              \* when nothing changed
              status == IF scn.step = "status" THEN FALSE ELSE work # files
          IN IF scn.step = "status" /\ scn.how = "raise"
             THEN Ret(TRUE, "status", e3, FALSE, FALSE, FALSE, work)
             ELSE IF ~status THEN Ret(FALSE, "none", e3, FALSE, FALSE, TRUE, work)
             ELSE commit_push_open(e3, work, scn)

\* The step of the scenario is reached by the call
Reached(files, old_sha, old_tag, new_sha, new_tag, scn) ==
  \/ scn.step \in {"clone", "checkout", "subst", "status"}
  \/ Substitute(files, old_sha, old_tag, new_sha, new_tag) # files

\* --------------------------------------------------------------- resolver
\* Tag names and refs are sequences of characters; "refs/tags/" is one token.
V1 == <<"v", "1">>
V2 == <<"v", "2">>
V3 == <<"v", "3">>
V9 == <<"v", "9">>
V10 == <<"v", "1", "0">>
V1Brace == <<"v", "1", "}">>
Ref(name) == <<"refs/tags/">> \o name
Peeled(name) == Ref(name) \o <<"^", "{", "}">>
ApiEntry(name, sha) == [name |-> name, commit |-> [sha |-> sha]]
GitLine(sha, ref) == [sha |-> sha, ref |-> ref]

\* The template repository as the two sources list it: the tags API newest
\* first, git ls-remote --tags by ref name with a peeled line after the line
\* of an annotated tag.
NoTagsWorld == [api |-> << >>, git |-> << >>]
OneTagWorld ==
  [api |-> << ApiEntry(V1, "c1") >>,
   git |-> << GitLine("c1", Ref(V1)) >>]
TwoTagsWorld ==
  [api |-> << ApiEntry(V2, "c2"), ApiEntry(V1, "c1") >>,
   git |-> << GitLine("c1", Ref(V1)), GitLine("c2", Ref(V2)) >>]
AnnotatedWorld ==
  [api |-> << ApiEntry(V1, "c1") >>,
   git |-> << GitLine("t1", Ref(V1)), GitLine("c1", Peeled(V1)) >>]
TenTagsWorld ==
  [api |-> << ApiEntry(V10, "c10"), ApiEntry(V9, "c9") >>,
   git |-> << GitLine("c10", Ref(V10)), GitLine("c9", Ref(V9)) >>]
\* a tag whose name ends in a brace, which git allows in a ref name
BraceWorld ==
  [api |-> << ApiEntry(V1Brace, "c1b") >>,
   git |-> << GitLine("c1b", Ref(V1Brace)) >>]
Worlds == {NoTagsWorld, OneTagWorld, TwoTagsWorld, AnnotatedWorld, TenTagsWorld,
           BraceWorld}

\* resolve_tag_sha's argument: tag=None or a tag name
NoTag == [given |-> FALSE, name |-> << >>]
Want(name) == [given |-> TRUE, name |-> name]
Requests == {NoTag, Want(V1), Want(V2), Want(V3), Want(V1Brace)}

\* What the tags API answers: the listing, or a transport error, a timeout,
\* a body that is not JSON, or JSON that is not a tag listing
ApiFailures == {"URLError", "timeout", "JSONDecodeError", "not a listing"}
ApiResponses(w) == {[kind |-> "ok", tags |-> w.api]}
                   \cup {[kind |-> k, tags |-> << >>] : k \in ApiFailures}
\* What git ls-remote does: prints the lines, is not installed, times out or
\* exits non-zero
GitFailures == {"FileNotFoundError", "TimeoutExpired", "exit"}
GitResponses(w) == {[kind |-> "ok", lines |-> w.git]}
                   \cup {[kind |-> k, lines |-> << >>] : k \in GitFailures}

Found(sha, name) == [ok |-> TRUE, sha |-> sha, tag |-> name, tier |-> "none", err |-> "none"]
Raise(tier, err) == [ok |-> FALSE, sha |-> None, tag |-> << >>, tier |-> tier, err |-> err]

\* updater.py:37-39 and 69-71: index of the first entry from position n on
\* whose name equals `name`, 0 when the loop ends without one
RECURSIVE FirstNamed(_, _, _)
FirstNamed(entries, name, n) ==
  IF n > Len(entries) THEN 0
  ELSE IF entries[n].name = name THEN n
  ELSE FirstNamed(entries, name, n + 1)

\* updater.py:27-40
resolve_via_api(tag, resp) ==
  IF resp.kind # "ok" THEN Raise("api", resp.kind)
  ELSE LET tags == resp.tags
           hit == FirstNamed(tags, tag.name, 1)
       IN IF tags = << >> THEN Raise("api", "No tags found")
          ELSE IF ~tag.given THEN Found(tags[1].commit.sha, tags[1].name)
          ELSE IF hit # 0 THEN Found(tags[hit].commit.sha, tags[hit].name)
          ELSE Raise("api", "Tag not found")

\* str.rstrip(chars)
RECURSIVE RStrip(_, _)
RStrip(str, chars) ==
  IF str # << >> /\ str[Len(str)] \in chars
  THEN RStrip(SubSeq(str, 1, Len(str) - 1), chars)
  ELSE str

\* updater.py:57-61
ParseLine(line) ==
  [sha |-> line.sha,
   name |-> RStrip(SelectSeq(line.ref, LAMBDA c : c # "refs/tags/"), {"^", "{", "}"})]

\* updater.py:43-72
resolve_via_git(tag, resp) ==
  IF resp.kind = "FileNotFoundError"
  THEN Raise("git", "git not found and GitHub API unavailable")
  ELSE IF resp.kind = "TimeoutExpired" THEN Raise("git", "TimeoutExpired")
  ELSE IF resp.kind = "exit" THEN Raise("git", "git ls-remote failed")
  ELSE LET entries == [n \in 1..Len(resp.lines) |-> ParseLine(resp.lines[n])]
           hit == FirstNamed(entries, tag.name, 1)
       IN IF entries = << >> THEN Raise("git", "No tags found via git ls-remote")
          ELSE IF ~tag.given
               THEN Found(entries[Len(entries)].sha, entries[Len(entries)].name)
          ELSE IF hit # 0 THEN Found(entries[hit].sha, entries[hit].name)
          ELSE Raise("git", "Tag not found via git ls-remote")

\* the handler narrowed to transport errors
CaughtTransportOnly(err) == err \in {"URLError", "timeout"}

\* updater.py:21, `except Exception`: every error of the first tier is one
Caught(err) == TRUE


\* ---------------------------------------------------------------- templates
\* A dict is the sequence of its items [k, v] in insertion order
Item(k, v) == [k |-> k, v |-> v]
Keys(d) == [i \in 1..Len(d) |-> d[i].k]
Has(d, key) == \E i \in 1..Len(d) : d[i].k = key
At(d, key) == d[CHOOSE i \in 1..Len(d) : d[i].k = key].v
Put(d, key, v) ==
  IF Has(d, key) THEN [i \in 1..Len(d) |-> IF d[i].k = key THEN Item(key, v) ELSE d[i]]
  ELSE Append(d, Item(key, v))
\* dict.update(other)
RECURSIVE Update(_, _)
Update(d, other) ==
  IF other = << >> THEN d
  ELSE Update(Put(d, Head(other).k, Head(other).v), Tail(other))

\* Input values: a bool or a str (a sequence of characters)
Bool(b) == [type |-> "bool", b |-> b, s |-> << >>]
Str(s) == [type |-> "str", b |-> FALSE, s |-> s]
\* value == default between bools and strs
PyEq(a, b) == a.type = b.type /\ a.b = b.b /\ a.s = b.s
\* truth value of a bool or a str
Truthy(v) == IF v.type = "bool" THEN v.b ELSE v.s # << >>

\* workflows.py: the registry, without the prompts
Meta(type, default) == [type |-> type, default |-> default]
CppQualityName == <<"cpp", "-", "quality">>
PythonQualityName == <<"python", "-", "quality">>
InfraLintName == <<"infra", "-", "lint">>
SastPythonName == <<"sast", "-", "python">>
CPP_QUALITY ==
  [filename |-> "cpp-quality.yml",
   workflow_name |-> "C++ Quality",
   ref_path |-> ".github/workflows/cpp-quality.yml",
   required_inputs |-> << Item("docker_image", Meta("string", Str(<< >>))) >>,
   optional_inputs |->
     << Item("compile_commands_path", Meta("string", Str(<<"build">>))),
        Item("source_setup", Meta("string", Str(<< >>))),
        Item("enable_clang_format", Meta("boolean", Bool(FALSE))),
        Item("enable_file_naming", Meta("boolean", Bool(FALSE))),
        Item("ban_cout", Meta("boolean", Bool(FALSE))),
        Item("ban_new", Meta("boolean", Bool(FALSE))),
        Item("enforce_doctest", Meta("boolean", Bool(FALSE))),
        Item("enable_flawfinder", Meta("boolean", Bool(FALSE))),
        Item("enable_sarif", Meta("boolean", Bool(FALSE))),
        Item("enable_sanitizers", Meta("boolean", Bool(FALSE))),
        Item("enable_iwyu", Meta("boolean", Bool(FALSE))) >>,
   permissions |-> << Item("actions", "read"), Item("contents", "read"),
                      Item("packages", "read"), Item("pull-requests", "write") >>,
   extra_permissions_if |->
     << Item("enable_flawfinder", << Item("security-events", "write") >>),
        Item("enable_sarif", << Item("security-events", "write") >>) >>]
PYTHON_QUALITY ==
  [filename |-> "python-quality.yml",
   workflow_name |-> "Python Quality",
   ref_path |-> ".github/workflows/python-quality.yml",
   required_inputs |-> << >>,
   optional_inputs |->
     << Item("python_linter", Meta("string", Str(<<"ruff">>))),
        Item("source_dirs", Meta("string", Str(<<"src">>))),
        Item("test_dirs", Meta("string", Str(<<"tests">>))),
        Item("enable_tests", Meta("boolean", Bool(TRUE))) >>,
   permissions |-> << Item("contents", "read"), Item("pull-requests", "write") >>,
   extra_permissions_if |-> << >>]
INFRA_LINT ==
  [filename |-> "infra-lint.yml",
   workflow_name |-> "Infrastructure Lint",
   ref_path |-> ".github/workflows/infra-lint.yml",
   required_inputs |-> << >>,
   optional_inputs |->
     << Item("enable_shellcheck", Meta("boolean", Bool(FALSE))),
        Item("enable_hadolint", Meta("boolean", Bool(FALSE))),
        Item("enable_cmake_lint", Meta("boolean", Bool(FALSE))),
        Item("enable_dangerous_workflows", Meta("boolean", Bool(FALSE))),
        Item("enable_binary_artifacts", Meta("boolean", Bool(FALSE))),
        Item("enable_gitleaks", Meta("boolean", Bool(FALSE))) >>,
   permissions |-> << Item("actions", "read"), Item("contents", "read"),
                      Item("pull-requests", "write") >>,
   extra_permissions_if |-> << >>]
SAST_PYTHON ==
  [filename |-> "sast-python.yml",
   workflow_name |-> "Python SAST",
   ref_path |-> ".github/workflows/sast-python.yml",
   required_inputs |-> << >>,
   optional_inputs |->
     << Item("enable_semgrep", Meta("boolean", Bool(TRUE))),
        Item("enable_pip_audit", Meta("boolean", Bool(TRUE))),
        Item("enable_codeql", Meta("boolean", Bool(FALSE))) >>,
   permissions |-> << Item("actions", "read"), Item("contents", "read"),
                      Item("pull-requests", "write"),
                      Item("security-events", "write") >>,
   extra_permissions_if |-> << >>]
WorkflowNames == {CppQualityName, PythonQualityName, InfraLintName, SastPythonName}
ALL_WORKFLOWS(name) ==
  CASE name = CppQualityName -> CPP_QUALITY
    [] name = PythonQualityName -> PYTHON_QUALITY
    [] name = InfraLintName -> INFRA_LINT
    [] name = SastPythonName -> SAST_PYTHON

\* templates.py:5
REPO == "PavelGuzenfeld/standard"

\* A line of the generated file: a fixed line (kind, text), an input line
\* (key, value text, whether it is quoted, whether the TODO comment follows)
\* or a permission line (key, level)
Line(kind, key, text, quoted, todo) ==
  [kind |-> kind, key |-> key, text |-> text, quoted |-> quoted, todo |-> todo]
Fixed(text) == Line("fixed", "", text, FALSE, FALSE)

\* templates.py:8-19: the text of a value and whether it is in quotes
ReservedWords == {<<"true">>, <<"false">>, <<"yes">>, <<"no">>, <<"null">>}
yaml_value(value) ==
  IF value.type = "bool"
  THEN [text |-> IF value.b THEN <<"true">> ELSE <<"false">>, quoted |-> FALSE]
  ELSE IF value.s = << >> THEN [text |-> << >>, quoted |-> TRUE]
  ELSE IF value.s \in ReservedWords \/ \E i \in 1..Len(value.s) : value.s[i] = ":"
  THEN [text |-> value.s, quoted |-> TRUE]
  ELSE [text |-> value.s, quoted |-> FALSE]

\* the loop running over the caller's keys first
LoopKeysCallerOrder(all_inputs, inputs) ==
  SelectSeq(Keys(inputs), LAMBDA k : Has(all_inputs, k))
  \o SelectSeq(Keys(all_inputs), LAMBDA k : ~Has(inputs, k))
\* templates.py:54: the keys the loop runs over, in order
LoopKeys(all_inputs, inputs) == Keys(all_inputs)

\* templates.py:53-63
RECURSIVE WithLines(_, _, _, _)
WithLines(keys, all_inputs, inputs, wf) ==
  IF keys = << >> THEN << >>
  ELSE LET key == Head(keys)
           meta == At(all_inputs, key)
           rest == WithLines(Tail(keys), all_inputs, inputs, wf)
       IN IF Has(inputs, key)
          THEN IF PyEq(At(inputs, key), meta.default) THEN rest
               ELSE << Line("with", key, yaml_value(At(inputs, key)).text,
                            yaml_value(At(inputs, key)).quoted, FALSE) >> \o rest
          ELSE IF Has(wf.required_inputs, key)
          THEN << Line("with", key, << >>, TRUE, TRUE) >> \o rest
          ELSE rest

\* the grants added whenever the trigger key is supplied
RECURSIVE PermsIfSupplied(_, _, _)
PermsIfSupplied(perms, extras, inputs) ==
  IF extras = << >> THEN perms
  ELSE PermsIfSupplied(IF Has(inputs, Head(extras).k)
                       THEN Update(perms, Head(extras).v) ELSE perms,
                       Tail(extras), inputs)
\* templates.py:70-73
RECURSIVE Perms(_, _, _)
Perms(perms, extras, inputs) ==
  IF extras = << >> THEN perms
  ELSE Perms(IF Has(inputs, Head(extras).k) /\ Truthy(At(inputs, Head(extras).k))
             THEN Update(perms, Head(extras).v) ELSE perms,
             Tail(extras), inputs)
\* sorted(perms.items()): the permission names in lexicographic order
PermOrder == <<"actions", "contents", "packages", "pull-requests", "security-events">>
Sorted(perms) ==
  LET names == SelectSeq(PermOrder, LAMBDA n : Has(perms, n))
  IN [i \in 1..Len(names) |-> Item(names[i], At(perms, names[i]))]

\* templates.py:22-80; the result is the sequence of the joined lines
generate_workflow(workflow_name, inputs, sha, tag_name) ==
  LET wf == ALL_WORKFLOWS(workflow_name)
      job == [i \in 1..Len(workflow_name) |->
                IF workflow_name[i] = "-" THEN "_" ELSE workflow_name[i]]
      all_inputs == Update(Update(<< >>, wf.required_inputs), wf.optional_inputs)
      with_lines == WithLines(LoopKeys(all_inputs, inputs), all_inputs, inputs, wf)
      perms == Sorted(Perms(wf.permissions, wf.extra_permissions_if, inputs))
  IN << Fixed(<<"name: ", wf.workflow_name>>), Fixed(<< >>), Fixed(<<"on:">>),
        Fixed(<<"  pull_request:">>), Fixed(<<"    branches: [main, master]">>),
        Fixed(<<"  workflow_dispatch:">>), Fixed(<< >>), Fixed(<<"jobs:">>),
        Fixed(<<"  ">> \o job \o <<":">>),
        Fixed(<<"    uses: ", REPO, "/", wf.ref_path, "@", sha, "  # ", tag_name>>) >>
     \o (IF with_lines # << >> THEN << Fixed(<<"    with:">>) >> \o with_lines
         ELSE << >>)
     \o << Fixed(<<"    permissions:">>) >>
     \o [i \in 1..Len(perms) |-> Line("perm", perms[i].k, <<perms[i].v>>, FALSE, FALSE)]
     \o << Fixed(<< >>) >>

\* ------------------------------------------------------------ local project
\* presets.py: the input overrides of a preset for a workflow
Presets == {"minimal", "recommended", "full"}
ALL_PRESETS(preset, name) ==
  CASE preset = "minimal" /\ name = SastPythonName ->
         << Item("enable_semgrep", Bool(TRUE)), Item("enable_pip_audit", Bool(TRUE)) >>
    [] preset = "minimal" /\ name # SastPythonName -> << >>
    [] preset = "recommended" /\ name = CppQualityName ->
         << Item("enable_clang_format", Bool(TRUE)),
            Item("enable_file_naming", Bool(TRUE)),
            Item("enable_flawfinder", Bool(TRUE)) >>
    [] preset = "recommended" /\ name = PythonQualityName -> << >>
    [] preset = "recommended" /\ name = InfraLintName ->
         << Item("enable_shellcheck", Bool(TRUE)), Item("enable_hadolint", Bool(TRUE)),
            Item("enable_gitleaks", Bool(TRUE)) >>
    [] preset = "recommended" /\ name = SastPythonName ->
         << Item("enable_semgrep", Bool(TRUE)), Item("enable_pip_audit", Bool(TRUE)) >>
    [] preset = "full" /\ name = CppQualityName ->
         << Item("enable_clang_format", Bool(TRUE)),
            Item("enable_file_naming", Bool(TRUE)), Item("ban_cout", Bool(TRUE)),
            Item("ban_new", Bool(TRUE)), Item("enforce_doctest", Bool(TRUE)),
            Item("enable_flawfinder", Bool(TRUE)), Item("enable_sarif", Bool(TRUE)),
            Item("enable_sanitizers", Bool(TRUE)), Item("enable_iwyu", Bool(TRUE)) >>
    [] preset = "full" /\ name = PythonQualityName -> << >>
    [] preset = "full" /\ name = InfraLintName ->
         << Item("enable_shellcheck", Bool(TRUE)), Item("enable_hadolint", Bool(TRUE)),
            Item("enable_cmake_lint", Bool(TRUE)),
            Item("enable_dangerous_workflows", Bool(TRUE)),
            Item("enable_binary_artifacts", Bool(TRUE)),
            Item("enable_gitleaks", Bool(TRUE)) >>
    [] preset = "full" /\ name = SastPythonName ->
         << Item("enable_semgrep", Bool(TRUE)), Item("enable_pip_audit", Bool(TRUE)),
            Item("enable_codeql", Bool(TRUE)) >>

\* cli.py:43-54: infra-lint, then the workflows of the languages in sorted
\* order
Languages == {"cpp", "python"}
workflow_names(langs) ==
  << InfraLintName >>
  \o (IF "cpp" \in langs THEN << CppQualityName >> ELSE << >>)
  \o (IF "python" \in langs THEN << PythonQualityName, SastPythonName >> ELSE << >>)

\* cli.py:79-87: the preset's inputs and, when asked, the answer for every
\* required input the preset leaves empty; answer "none": --non-interactive
Answers == {[asked |-> FALSE, value |-> Str(<< >>)],
            [asked |-> TRUE, value |-> Str(<< >>)],
            [asked |-> TRUE, value |-> Str(<<"ghcr.io/org/image", ":", "tag">>)]}
RECURSIVE AskRequired(_, _, _)
AskRequired(inputs, required, answer) ==
  IF required = << >> THEN inputs
  ELSE AskRequired(IF ~Has(inputs, Head(required).k)
                      \/ ~Truthy(At(inputs, Head(required).k))
                   THEN Put(inputs, Head(required).k, answer) ELSE inputs,
                   Tail(required), answer)
init_inputs(preset, name, answer) ==
  IF answer.asked
  THEN AskRequired(ALL_PRESETS(preset, name), ALL_WORKFLOWS(name).required_inputs,
                   answer.value)
  ELSE ALL_PRESETS(preset, name)

NoProject == [x \in {} |-> << >>]
Range(seq) == {seq[i] : i \in 1..Len(seq)}
\* cli.py:97-108: the workflow files init writes, by file name
init_files(names, preset, answer, sha, tag_name) ==
  [f \in {ALL_WORKFLOWS(n).filename : n \in Range(names)} |->
     LET name == CHOOSE n \in Range(names) : ALL_WORKFLOWS(n).filename = f
     IN generate_workflow(name, init_inputs(preset, name, answer), sha, tag_name)]
\* cli.py:110-117: the declared state init writes
init_config(names, preset, sha, tag_name) ==
  [preset |-> preset, tag |-> tag_name, sha |-> sha, workflows |-> names]

\* str.replace over the text of a line: the old sha, and the old tag after
\* the comment sign
ReplaceSha(text, old, new) ==
  [i \in 1..Len(text) |-> IF text[i] = old THEN new ELSE text[i]]
ReplaceTagComment(text, old_tag, new_tag) ==
  [i \in 1..Len(text) |->
     IF i > 1 /\ text[i - 1] = "  # " /\ text[i] = old_tag THEN new_tag ELSE text[i]]
ContainsSha(content, sha) ==
  \E i \in 1..Len(content) : \E j \in 1..Len(content[i].text) :
    content[i].text[j] = sha
\* the update rewriting the comment and leaving the sha
update_content_tag_only(content, old_sha, old_tag, new_sha, new_tag) ==
  [i \in 1..Len(content) |->
     [content[i] EXCEPT !.text = ReplaceTagComment(content[i].text, old_tag, new_tag)]]
\* cli.py:175-180
update_content(content, old_sha, old_tag, new_sha, new_tag) ==
  IF old_sha # "" /\ ContainsSha(content, old_sha)
  THEN [i \in 1..Len(content) |->
          [content[i] EXCEPT !.text =
             ReplaceTagComment(ReplaceSha(content[i].text, old_sha, new_sha),
                               old_tag, new_tag)]]
  ELSE content
\* the update rewriting .standard.yml alone
update_files_untouched(files, enabled, old_sha, old_tag, new_sha, new_tag) == files
\* cli.py:160-181: the loop over the enabled workflows
update_files(files, enabled, old_sha, old_tag, new_sha, new_tag) ==
  [f \in DOMAIN files |->
     IF \E n \in Range(enabled) : n \in WorkflowNames /\ ALL_WORKFLOWS(n).filename = f
     THEN update_content(files[f], old_sha, old_tag, new_sha, new_tag)
     ELSE files[f]]

\* checker.py:48-52: a sha is 40 hexadecimal digits
IsFullSha(tok) == tok \in {p.sha : p \in Pins}
Issue(level, msg) == [level |-> level, msg |-> msg]
\* checker.py:46-63: the issue of one workflow file, "none" without one
RECURSIVE FileSha(_, _)
FileSha(content, ref_path) ==
  IF content = << >> THEN [found |-> FALSE, sha |-> ""]
  ELSE LET text == Head(content).text
       IN IF Len(text) >= 6 /\ SubSeq(text, 2, 5) = <<REPO, "/", ref_path, "@">>
          THEN [found |-> TRUE, sha |-> text[6]]
          ELSE FileSha(Tail(content), ref_path)
check_sha(content, ref_path, pinned_sha) ==
  LET ref == FileSha(content, ref_path)
  IN IF pinned_sha = "" \/ ~ref.found THEN Issue("none", "")
     ELSE IF ~IsFullSha(ref.sha) THEN Issue("warning", "not pinned to a full SHA")
     ELSE IF ref.sha # pinned_sha THEN Issue("warning", "SHA mismatch")
     ELSE Issue("none", "")
\* checker.py:31-63
RECURSIVE check_enabled(_, _, _)
check_enabled(enabled, files, pinned_sha) ==
  IF enabled = << >> THEN << >>
  ELSE LET name == Head(enabled)
           rest == check_enabled(Tail(enabled), files, pinned_sha)
       IN IF name \notin WorkflowNames THEN << Issue("warning", "Unknown workflow") >> \o rest
          ELSE IF ALL_WORKFLOWS(name).filename \notin DOMAIN files
          THEN << Issue("error", "Missing workflow file") >> \o rest
          ELSE LET issue == check_sha(files[ALL_WORKFLOWS(name).filename],
                                      ALL_WORKFLOWS(name).ref_path, pinned_sha)
               IN IF issue.level = "none" THEN rest ELSE << issue >> \o rest
\* checker.py:12-69
check(config, files) ==
  IF config = NoConfig THEN << Issue("error", ".standard.yml not found") >>
  ELSE IF Get(config, "workflows", << >>) = << >>
  THEN << Issue("error", "No workflows listed in .standard.yml") >>
  ELSE LET issues == check_enabled(Get(config, "workflows", << >>), files,
                                   Get(config, "sha", ""))
       IN IF issues = << >> THEN << Issue("ok", "All workflows match .standard.yml") >>
          ELSE issues

\* ----------------------------------------------------------- state machine
VARIABLES
  fleet,          \* Repos -> the kind of the member repo
  openPRs,        \* Repos -> Branches -> number of open review requests
  run,            \* number of invocations of the auto-update command so far
  faults,         \* number of commands that went wrong so far
  pc,             \* "idle" | "loop" | "update" | "crashed"
  idx,            \* position of the for loop in scan_results
  latest,         \* canonical pin of the current invocation
  dry_run,        \* dry_run argument of the current invocation
  scan_results,   \* scan_org's results of the current invocation
  messages,       \* messages list of auto_update_repos
  cur,            \* the loop body's work on the repo at idx, or on the last one
  res,            \* Repos -> what the current invocation reported for the repo
  prev,           \* summary of the invocation before the current one
  rs_pc,          \* resolve_tag_sha: "off" | "api" | "git" | "done"
  rs_tag,         \* its tag argument
  rs_world,       \* the tags of the template repository
  rs_api,         \* what the tags API answers
  rs_git,         \* what git ls-remote does
  rs_calls,       \* the tiers called so far
  rs_result,      \* what resolve_tag_sha returned or raised
  sc_pc,          \* scan_org: "off" | "resolve" | "list" | "scan" | "done" | "raised"
  sc_world,       \* what the hosting service lists for the owner
  sc_endpoint,    \* list_org_repos: position of its loop over the endpoints
  sc_url,         \* _api_get_paginated: url
  sc_items,       \* _api_get_paginated: items
  sc_calls,       \* the calls scan_org made to the outside so far
  sc_repos,       \* scan_org: repos
  sc_results,     \* scan_org: results
  sc_latest,      \* scan_org: latest_sha, latest_tag
  sc_fetch,       \* the last call of fetch_standard_config
  sc_error,       \* what scan_org raised
  sc_exit,        \* how the scan command ended
  rn_pc,          \* generate_workflow: "off" | "ready" | "rendered" | "between" | "done"
  rn_name,        \* workflow_name of the two compared calls
  rn_inputs,      \* inputs of the first call
  rn_pin,         \* sha and tag_name of the two compared calls
  rn_out,         \* what the first call returned
  rn_other,       \* what a call with other arguments in between returned
  rn_inputs2,     \* inputs of the second call: the same mapping, built in another order
  rn_out2,        \* what the second call returned
  lp_pc,          \* the project directory: "off", "empty", "ready"
  lp_config,      \* what .standard.yml declares (NoConfig: no such file)
  lp_files,       \* .github/workflows: the content of each file, by name
  lp_last,        \* the last command run in the directory
  lp_prev         \* the command run before it

remVars == <<fleet, openPRs, run, faults, pc, idx, latest, dry_run,
             scan_results, messages, cur, res, prev>>
rsVars == <<rs_pc, rs_tag, rs_world, rs_api, rs_git, rs_calls, rs_result>>
scVars == <<sc_pc, sc_world, sc_endpoint, sc_url, sc_items, sc_calls, sc_repos,
            sc_results, sc_latest, sc_fetch, sc_error, sc_exit>>
rnVars == <<rn_pc, rn_name, rn_inputs, rn_pin, rn_out, rn_other, rn_inputs2, rn_out2>>
lpVars == <<lp_pc, lp_config, lp_files, lp_last, lp_prev>>
vars == <<remVars, rsVars, scVars, rnVars, lpVars>>

\* cur: repo: the repo worked on (0: none); outcome/detail: what the loop
\* reported; failed: the command that went wrong; execs: executions per
\* command; found: what the query returned; created: a request was opened;
\* pushed: the branch reached the remote; early: returned at the status
\* check; work: the files after substitution
NoCur == [repo |-> 0, outcome |-> "none", detail |-> "none", failed |-> "none",
          execs |-> NoExecs, found |-> FALSE, created |-> FALSE,
          pushed |-> FALSE, early |-> FALSE, work |-> NoFiles]
\* res: outcome: the status reported; failed: a command went wrong;
\* touched: a command other than the query was executed
NoRes == [outcome |-> "none", failed |-> FALSE, touched |-> FALSE]
NoPin == [tag |-> None, sha |-> None]
NoPrev == [valid |-> FALSE, pin |-> NoPin, dry |-> FALSE, opened |-> {}]
NoResult == Raise("none", "none")

RsOff ==
  /\ rs_pc = "off"
  /\ rs_tag = NoTag
  /\ rs_world = NoTagsWorld
  /\ rs_api = [kind |-> "ok", tags |-> << >>]
  /\ rs_git = [kind |-> "ok", lines |-> << >>]
  /\ rs_calls = << >>
  /\ rs_result = NoResult

NoExit == [code |-> 0, output |-> "none"]
NoFetch == [repo |-> 0, resp |-> "none", raised |-> "none", config |-> NoConfig]
ScOff ==
  /\ sc_pc = "off"
  /\ sc_world = [owner |-> "none", paging |-> "single",
                 flags |-> [r \in Repos |-> "source"]]
  /\ sc_endpoint = 1
  /\ sc_url = NoUrl
  /\ sc_items = << >>
  /\ sc_calls = << >>
  /\ sc_repos = << >>
  /\ sc_results = << >>
  /\ sc_latest = NoPin
  /\ sc_fetch = NoFetch
  /\ sc_error = "none"
  /\ sc_exit = NoExit

\* lp_last: cmd: "none", "init", "update", "check"; pin: what the tag
\* resolved to; config, files: the directory before the command
NoCommand ==
  [cmd |-> "none", pin |-> NoPin, dry |-> FALSE, exit |-> 0, output |-> << >>,
   config |-> NoConfig, files |-> NoProject]
LpOff ==
  /\ lp_pc = "off"
  /\ lp_config = NoConfig
  /\ lp_files = NoProject
  /\ lp_last = NoCommand
  /\ lp_prev = NoCommand

RnOff ==
  /\ rn_pc = "off"
  /\ rn_name = CppQualityName
  /\ rn_inputs = << >>
  /\ rn_pin = NoPin
  /\ rn_out = << >>
  /\ rn_other = << >>
  /\ rn_inputs2 = << >>
  /\ rn_out2 = << >>

Init ==
  /\ fleet \in [Repos -> RepoKinds]
  /\ openPRs = [r \in Repos |-> [b \in Branches |-> 0]]
  /\ run = 0
  /\ faults = 0
  /\ pc = "idle"
  /\ idx = 0
  /\ latest = NoPin
  /\ dry_run = FALSE
  /\ scan_results = << >>
  /\ messages = << >>
  /\ cur = NoCur
  /\ res = [r \in Repos |-> NoRes]
  /\ prev = NoPrev
  /\ RsOff
  /\ ScOff
  /\ RnOff
  /\ LpOff

\* the declared state fetch_standard_config returns for a repo, and the
\* files a clone of it yields
ConfigOf(r) == KindOf(fleet[r]).config
FilesOf(r) == KindOf(fleet[r]).files

\* scanner.py:121-134 with the canonical pin resolved to `pin` and the
\* fleet enumerated in order
scan_org(pin) ==
  [k \in 1..NumRepos |-> scan_repo(k, ConfigOf(k), pin.sha, pin.tag)]

\* cli.py:326-371 and auto_update.py:65-70: one invocation of the command
\* scans the fleet and enters the loop of auto_update_repos
StartRun(pin, dry) ==
  /\ pc \in {"idle", "crashed"}
  /\ run < MaxRuns
  /\ run' = run + 1
  /\ prev' = [valid |-> run > 0 /\ pc = "idle", pin |-> latest, dry |-> dry_run,
              opened |-> {r \in Repos : res[r].outcome = "Opened PR"}]
  /\ latest' = pin
  /\ dry_run' = dry
  /\ scan_results' = scan_org(pin)
  /\ messages' = << >>
  /\ cur' = NoCur
  /\ res' = [r \in Repos |-> NoRes]
  /\ idx' = 1
  /\ pc' = "loop"
  /\ UNCHANGED <<rsVars, scVars, rnVars, lpVars, fleet, openPRs, faults>>

InLoop == pc = "loop" /\ idx \in 1..Len(scan_results)
\* the loop's filter without its up_to_date test
DriftedOrCurrent(info) == info.has_config
\* the loop's filter without its has_config test
DriftedIgnoringConfig(info) == ~info.up_to_date
\* auto_update.py:73, the negation of the `continue` condition
Drifted(info) == info.has_config /\ ~info.up_to_date
\* auto_update.py:77-78
OldTag(info) == IF info.current_tag \in {None, ""} THEN "unknown" ELSE info.current_tag
OldSha(info) == IF info.current_sha \in {None, ""} THEN "" ELSE info.current_sha

\* auto_update.py:73-74
LoopContinue ==
  /\ InLoop
  /\ ~Drifted(scan_results[idx])
  /\ idx' = idx + 1
  /\ cur' = NoCur
  /\ UNCHANGED <<rsVars, scVars, rnVars, lpVars, fleet, openPRs, run, faults, pc, latest, dry_run,
                 scan_results, messages, res, prev>>

\* auto_update.py:80-82
LoopDryRun ==
  /\ InLoop
  /\ Drifted(scan_results[idx])
  /\ dry_run
  /\ LET info == scan_results[idx] IN
       /\ messages' = Append(messages, [kind |-> "Would update", repo |-> info.repo])
       /\ res' = [res EXCEPT ![info.repo].outcome = "Would update"]
  /\ idx' = idx + 1
  /\ cur' = NoCur
  /\ UNCHANGED <<rsVars, scVars, rnVars, lpVars, fleet, openPRs, run, faults, pc, latest, dry_run,
                 scan_results, prev>>

\* the loop going on to the update although a request was found
after_check_no_skip(chk) ==
  IF chk.raised THEN "raise" ELSE "update"

\* auto_update.py:85-87: where the loop goes after the query: the exception
\* of the query leaves the loop, a request found skips the repo
after_check(chk) ==
  IF chk.raised THEN "raise"
  ELSE IF chk.found THEN "continue"
  ELSE "update"

\* auto_update.py:84-87: the query for an open request on the branch
LoopCheckExisting(q) ==
  /\ InLoop
  /\ Drifted(scan_results[idx])
  /\ ~dry_run
  /\ q # "ok" => faults < MaxFaults
  /\ faults' = IF q # "ok" THEN faults + 1 ELSE faults
  /\ LET info == scan_results[idx]
         repo == info.repo
         branch_name == BranchName(latest.tag)
         chk == check_existing_pr(openPRs[repo][branch_name], q)
         c1 == [NoCur EXCEPT !.repo = repo, !.execs["query"] = 1,
                             !.found = chk.found,
                             !.failed = IF q = "ok" THEN "none" ELSE "query"]
         r1 == [res[repo] EXCEPT !.failed = (q # "ok")]
         goto == after_check(chk)
     IN IF goto = "raise"
        THEN /\ pc' = "crashed"
             /\ cur' = c1
             /\ res' = [res EXCEPT ![repo] = r1]
             /\ UNCHANGED <<idx, messages>>
        ELSE IF goto = "continue"
        THEN /\ messages' = Append(messages, [kind |-> "Skipped", repo |-> repo])
             /\ cur' = [c1 EXCEPT !.outcome = "Skipped"]
             /\ res' = [res EXCEPT ![repo] = [r1 EXCEPT !.outcome = "Skipped"]]
             /\ idx' = idx + 1
             /\ pc' = pc
        ELSE /\ pc' = "update"
             /\ cur' = c1
             /\ res' = [res EXCEPT ![repo] = r1]
             /\ UNCHANGED <<idx, messages>>
  /\ UNCHANGED <<rsVars, scVars, rnVars, lpVars, fleet, openPRs, run, latest, dry_run, scan_results, prev>>

\* auto_update.py:89-96: _update_single_repo under try/except
LoopUpdate(scn) ==
  /\ pc = "update"
  /\ LET info == scan_results[idx]
         repo == info.repo
         files == FilesOf(repo)
         branch_name == BranchName(latest.tag)
     IN \E u \in {update_single_repo(files, OldSha(info), OldTag(info),
                                     latest.sha, latest.tag, scn)} :
        \E outcome \in {IF u.raised THEN "Failed" ELSE "Opened PR"} :
        /\ scn # NoFault =>
             /\ faults < MaxFaults
             /\ Reached(files, OldSha(info), OldTag(info), latest.sha, latest.tag, scn)
        /\ faults' = IF scn # NoFault THEN faults + 1 ELSE faults
        /\ openPRs' = IF u.created THEN [openPRs EXCEPT ![repo][branch_name] = @ + 1]
                      ELSE openPRs
        /\ cur' = [repo |-> repo, outcome |-> outcome, detail |-> u.detail,
                   failed |-> IF scn = NoFault THEN cur.failed ELSE scn.step,
                   execs |-> [c \in Cmds |-> IF c = "query" THEN cur.execs[c]
                                             ELSE u.execs[c]],
                   found |-> cur.found, created |-> u.created,
                   pushed |-> u.pushed, early |-> u.early, work |-> u.work]
        /\ res' = [res EXCEPT ![repo] =
                     [outcome |-> outcome,
                      failed |-> res[repo].failed \/ scn # NoFault,
                      touched |-> TRUE]]
        /\ messages' = Append(messages, [kind |-> outcome, repo |-> repo])
  /\ idx' = idx + 1
  /\ pc' = "loop"
  /\ UNCHANGED <<rsVars, scVars, rnVars, lpVars, fleet, run, latest, dry_run, scan_results, prev>>

\* auto_update.py:98-101
LoopReturn ==
  /\ pc = "loop"
  /\ idx > Len(scan_results)
  /\ messages' = IF messages = << >> THEN << [kind |-> "All repos are up to date"] >>
                 ELSE messages
  /\ pc' = "idle"
  /\ idx' = 0
  /\ UNCHANGED <<rsVars, scVars, rnVars, lpVars, fleet, openPRs, run, faults, latest, dry_run,
                 scan_results, cur, res, prev>>

Next ==
  \/ \E pin \in Pins, dry \in BOOLEAN : StartRun(pin, dry)
  \/ LoopContinue
  \/ LoopDryRun
  \/ \E q \in QueryOutcomes : LoopCheckExisting(q)
  \/ \E scn \in Scenarios : LoopUpdate(scn)
  \/ LoopReturn

Spec == Init /\ [][Next]_vars

TypeOK ==
  /\ run \in 0..MaxRuns
  /\ faults \in 0..MaxFaults
  /\ pc \in {"idle", "loop", "update", "crashed", "off"}
  /\ cur.repo \in Repos \cup {0}

\* ------------------------------------------ resolve_tag_sha as a machine
RemOff ==
  /\ fleet = [r \in Repos |-> "Unconfigured"]
  /\ openPRs = [r \in Repos |-> [b \in Branches |-> 0]]
  /\ run = 0
  /\ faults = 0
  /\ pc = "off"
  /\ idx = 0
  /\ latest = NoPin
  /\ dry_run = FALSE
  /\ scan_results = << >>
  /\ messages = << >>
  /\ cur = NoCur
  /\ res = [r \in Repos |-> NoRes]
  /\ prev = NoPrev

InitResolve ==
  /\ RemOff
  /\ ScOff
  /\ RnOff
  /\ LpOff
  /\ rs_pc = "api"
  /\ rs_tag \in Requests
  /\ rs_world \in Worlds
  /\ rs_api \in ApiResponses(rs_world)
  /\ rs_git \in GitResponses(rs_world)
  /\ rs_calls = << >>
  /\ rs_result = NoResult

\* updater.py:18-22: the first tier under try/except
ResolveApi ==
  /\ rs_pc = "api"
  /\ rs_calls' = Append(rs_calls, "api")
  /\ LET r == resolve_via_api(rs_tag, rs_api)
     IN IF r.ok \/ ~Caught(r.err)
        THEN rs_result' = r /\ rs_pc' = "done"
        ELSE rs_result' = rs_result /\ rs_pc' = "git"
  /\ UNCHANGED <<remVars, scVars, rnVars, lpVars, rs_tag, rs_world, rs_api, rs_git>>

\* updater.py:23-24: the fallback tier
ResolveGit ==
  /\ rs_pc = "git"
  /\ rs_calls' = Append(rs_calls, "git")
  /\ rs_result' = resolve_via_git(rs_tag, rs_git)
  /\ rs_pc' = "done"
  /\ UNCHANGED <<remVars, scVars, rnVars, lpVars, rs_tag, rs_world, rs_api, rs_git>>

NextResolve == ResolveApi \/ ResolveGit

SpecResolve == InitResolve /\ [][NextResolve]_vars

\* ---------------------------------------------------- scan_org as a machine
remRest == <<openPRs, run, pc, idx, latest, dry_run, scan_results, messages,
             cur, res, prev>>
InitScan ==
  /\ fleet \in [Repos -> RepoKinds]
  /\ openPRs = [r \in Repos |-> [b \in Branches |-> 0]]
  /\ run = 0
  /\ faults = 0
  /\ pc = "off"
  /\ idx = 0
  /\ latest = NoPin
  /\ dry_run = FALSE
  /\ scan_results = << >>
  /\ messages = << >>
  /\ cur = NoCur
  /\ res = [r \in Repos |-> NoRes]
  /\ prev = NoPrev
  /\ RsOff
  /\ RnOff
  /\ LpOff
  /\ sc_pc = "resolve"
  /\ sc_world \in ScanWorlds
  /\ sc_endpoint = 1
  /\ sc_url = NoUrl
  /\ sc_items = << >>
  /\ sc_calls = << >>
  /\ sc_repos = << >>
  /\ sc_results = << >>
  /\ sc_latest = NoPin
  /\ sc_fetch = NoFetch
  /\ sc_error = "none"
  /\ sc_exit = NoExit

ResolveOutcomes == {"ok", "RuntimeError", "TimeoutExpired"}
Call(op, endpoint, url, repo, kind) ==
  [op |-> op, endpoint |-> endpoint, url |-> url, repo |-> repo, kind |-> kind]

\* scanner.py:129: resolve_tag_sha() returns the canonical pin, raises
\* RuntimeError, or lets the TimeoutExpired of git ls-remote through
\* (updater.py:45-53 catches FileNotFoundError only)
ScanResolve(pin, how) ==
  /\ sc_pc = "resolve"
  /\ how = "ok" \/ faults < MaxFaults
  /\ faults' = IF how = "ok" THEN faults ELSE faults + 1
  /\ sc_calls' = Append(sc_calls, Call("resolve", 0, NoUrl, 0, how))
  /\ IF how = "ok"
     THEN /\ sc_latest' = pin
          /\ sc_pc' = "list"
          /\ sc_url' = FirstUrl
          /\ sc_error' = sc_error
     ELSE /\ sc_latest' = sc_latest
          /\ sc_pc' = "raised"
          /\ sc_url' = sc_url
          /\ sc_error' = how
  /\ UNCHANGED <<rsVars, rnVars, lpVars, remRest, fleet, sc_world, sc_endpoint, sc_items,
                 sc_repos, sc_results, sc_fetch, sc_exit>>

\* scanner.py:23-35 and 44-62: one request of _api_get_paginated under the
\* try of list_org_repos, and what follows it up to the next request
ListPage(resp) ==
  /\ sc_pc = "list"
  /\ resp = Served(sc_world, sc_endpoint, sc_url) \/ faults < MaxFaults
  /\ faults' = IF resp = Served(sc_world, sc_endpoint, sc_url) THEN faults
               ELSE faults + 1
  /\ sc_calls' = Append(sc_calls, Call("list", sc_endpoint, sc_url, 0, resp.kind))
  /\ IF resp.kind = "ok"
     THEN LET items == sc_items \o resp.data
              url == NextUrl(resp.link, NoUrl)
          IN IF url # NoUrl
             THEN /\ sc_items' = items
                  /\ sc_url' = url
                  /\ UNCHANGED <<sc_pc, sc_endpoint, sc_repos, sc_error>>
             ELSE /\ sc_items' = items
                  /\ sc_url' = url
                  /\ sc_repos' = FilterRepos(items)
                  /\ sc_pc' = IF FilterRepos(items) = << >> THEN "done" ELSE "scan"
                  /\ UNCHANGED <<sc_endpoint, sc_error>>
     ELSE IF SwitchesEndpoint(resp.kind)
     THEN IF sc_endpoint = 1
          THEN /\ sc_endpoint' = 2
               /\ sc_url' = FirstUrl
               /\ sc_items' = items_at_start(sc_items)
               /\ UNCHANGED <<sc_pc, sc_repos, sc_error>>
          ELSE /\ sc_pc' = "raised"
               /\ sc_error' = "RuntimeError: not found as org or user"
               /\ UNCHANGED <<sc_endpoint, sc_url, sc_items, sc_repos>>
     ELSE /\ sc_pc' = "raised"
          /\ sc_error' = resp.kind
          /\ UNCHANGED <<sc_endpoint, sc_url, sc_items, sc_repos>>
  /\ UNCHANGED <<rsVars, rnVars, lpVars, remRest, fleet, sc_world, sc_results, sc_latest,
                 sc_fetch, sc_exit>>

\* scanner.py:132-134 with 84-118: one turn of the loop over repos, and the
\* return after the last one
ScanRepo(resp) ==
  /\ sc_pc = "scan"
  /\ LET repo == sc_repos[Len(sc_results) + 1].full_name
         f == fetch_standard_config(resp)
         results == append_result(sc_results,
                                  scan_repo(repo, f.config, sc_latest.sha, sc_latest.tag))
     IN /\ resp = Contents(FilesOf(repo)) \/ faults < MaxFaults
        /\ faults' = IF resp = Contents(FilesOf(repo)) THEN faults ELSE faults + 1
        /\ sc_calls' = Append(sc_calls, Call("fetch", 0, NoUrl, repo, resp.kind))
        /\ sc_fetch' = [repo |-> repo, resp |-> resp.kind, raised |-> f.raised,
                        config |-> f.config]
        /\ IF f.raised # "none"
           THEN /\ sc_pc' = "raised"
                /\ sc_error' = f.raised
                /\ sc_results' = sc_results
           ELSE /\ sc_results' = results
                /\ sc_pc' = IF Len(results) = Len(sc_repos) THEN "done" ELSE "scan"
                /\ sc_error' = sc_error
  /\ UNCHANGED <<rsVars, rnVars, lpVars, remRest, fleet, sc_world, sc_endpoint, sc_url, sc_items,
                 sc_repos, sc_latest, sc_exit>>

\* cli.py:248 and 359, `except RuntimeError`
IsRuntimeError(err) ==
  err \in {"RuntimeError", "RuntimeError: not found as org or user"}

\* cli.py:242-279 (cmd_scan; cmd_auto_update has the same handler at
\* 356-361): a RuntimeError of scan_org is printed as "Error: ..." with exit
\* status 1, any other exception ends the interpreter with a traceback and
\* status 1; the results are printed, with status 1 under --exit-code when a
\* repo is drifted
CmdScanExit(exit_code) ==
  /\ sc_pc \in {"done", "raised"}
  /\ sc_exit = NoExit
  /\ sc_exit' =
       IF sc_pc = "raised"
       THEN IF IsRuntimeError(sc_error) THEN [code |-> 1, output |-> "Error"]
            ELSE [code |-> 1, output |-> "Traceback"]
       ELSE [code |-> IF exit_code /\ \E k \in 1..Len(sc_results) :
                                        Drifted(sc_results[k])
                      THEN 1 ELSE 0,
             output |-> "results"]
  /\ UNCHANGED <<rsVars, rnVars, lpVars, remVars, sc_pc, sc_world, sc_endpoint, sc_url,
                 sc_items, sc_calls, sc_repos, sc_results, sc_latest, sc_fetch,
                 sc_error>>

\* the answers a request of the current step can get
ListAnswers ==
  IF sc_pc # "list" THEN {}
  ELSE {Served(sc_world, sc_endpoint, sc_url)} \cup {Fault(k) : k \in HttpFaults}
FetchAnswers ==
  IF sc_pc # "scan" THEN {}
  ELSE {Contents(FilesOf(sc_repos[Len(sc_results) + 1].full_name))}
       \cup {[kind |-> k, content |-> << >>] : k \in ContentFaults}

NextScan ==
  \/ \E pin \in Pins, how \in ResolveOutcomes : ScanResolve(pin, how)
  \/ \E resp \in ListAnswers : ListPage(resp)
  \/ \E resp \in FetchAnswers : ScanRepo(resp)
  \/ \E exit_code \in BOOLEAN : CmdScanExit(exit_code)

SpecScan == InitScan /\ [][NextScan]_vars

\* ------------------------------------------- generate_workflow as a machine
\* The inputs mappings of the calls: up to MaxInputs keys, known to a
\* workflow or not, with bool and str values
RenderKeys == {"docker_image", "compile_commands_path", "enable_sarif", "enable_tests"}
RenderValues ==
  {Bool(TRUE), Bool(FALSE), Str(<< >>), Str(<<"build">>), Str(<<"false">>),
   Str(<<"ghcr.io/org/image", ":", "tag">>)}
InputDicts ==
  UNION {{d \in [1..n -> [k : RenderKeys, v : RenderValues]] :
            \A i, j \in 1..n : d[i].k = d[j].k => i = j} : n \in 0..MaxInputs}

InitRender ==
  /\ RemOff
  /\ RsOff
  /\ ScOff
  /\ rn_pc = "ready"
  /\ rn_name \in WorkflowNames
  /\ rn_inputs \in InputDicts
  /\ rn_pin \in Pins
  /\ rn_out = << >>
  /\ rn_other = << >>
  /\ rn_inputs2 = << >>
  /\ rn_out2 = << >>
  /\ LpOff

\* cli.py:103: a call of generate_workflow
Render ==
  /\ rn_pc = "ready"
  /\ rn_out' = generate_workflow(rn_name, rn_inputs, rn_pin.sha, rn_pin.tag)
  /\ rn_pc' = "rendered"
  /\ UNCHANGED <<remVars, rsVars, scVars, lpVars, rn_name, rn_inputs, rn_pin, rn_other,
                 rn_inputs2, rn_out2>>

\* cli.py:102-103: the loop calls it for another workflow in between
RenderOther(name) ==
  /\ rn_pc = "rendered"
  /\ name # rn_name
  /\ rn_other' = generate_workflow(name, rn_inputs, rn_pin.sha, rn_pin.tag)
  /\ rn_pc' = "between"
  /\ UNCHANGED <<remVars, rsVars, scVars, lpVars, rn_name, rn_inputs, rn_pin, rn_out,
                 rn_inputs2, rn_out2>>

\* a second call with an equal mapping whose keys were inserted in the
\* order p
RenderAgain(p) ==
  /\ rn_pc \in {"rendered", "between"}
  /\ rn_inputs2' = [i \in 1..Len(rn_inputs) |-> rn_inputs[p[i]]]
  /\ rn_out2' = generate_workflow(rn_name, rn_inputs2', rn_pin.sha, rn_pin.tag)
  /\ rn_pc' = "done"
  /\ UNCHANGED <<remVars, rsVars, scVars, lpVars, rn_name, rn_inputs, rn_pin, rn_out,
                 rn_other>>

NextRender ==
  \/ Render
  \/ \E name \in WorkflowNames : RenderOther(name)
  \/ \E p \in Permutations(1..Len(rn_inputs)) : RenderAgain(p)

SpecRender == InitRender /\ [][NextRender]_vars

\* ------------------------------------- init, update and check as a machine
\* config.py: what write_config stores is what read_config returns
write_config(data) == data
read_config(stored) == stored

InitLocal ==
  /\ RemOff
  /\ RsOff
  /\ ScOff
  /\ RnOff
  /\ lp_pc = "empty"
  /\ lp_config = NoConfig
  /\ lp_files = NoProject
  /\ lp_last = NoCommand
  /\ lp_prev = NoCommand

Command(cmd, pin, dry, exit_code, output) ==
  [cmd |-> cmd, pin |-> pin, dry |-> dry, exit |-> exit_code, output |-> output,
   config |-> lp_config, files |-> lp_files]

\* cli.py:22-125
CmdInit(pin, how, langs, preset, answer) ==
  /\ lp_pc = "empty"
  /\ lp_prev' = lp_last
  /\ IF how # "ok"
     THEN /\ lp_last' = Command("init", NoPin, FALSE, 1,
                                IF how = "RuntimeError" THEN << Issue("error", "Error") >>
                                ELSE << Issue("error", "Traceback") >>)
          /\ UNCHANGED <<lp_pc, lp_config, lp_files>>
     ELSE LET names == workflow_names(langs)
          IN /\ lp_files' = init_files(names, preset, answer, pin.sha, pin.tag)
             /\ lp_config' = write_config(init_config(names, preset, pin.sha, pin.tag))
             /\ lp_pc' = "ready"
             /\ lp_last' = Command("init", pin, FALSE, 0, << Issue("ok", "Done") >>)
  /\ UNCHANGED <<remVars, rsVars, scVars, rnVars>>

\* cli.py:128-192
CmdUpdate(pin, how, dry) ==
  /\ lp_pc \in {"empty", "ready"}
  /\ lp_prev' = lp_last
  /\ LET config == read_config(lp_config)
         old_sha == Get(config, "sha", "")
         old_tag == Get(config, "tag", "")
     IN IF config = NoConfig
        THEN /\ lp_last' = Command("update", NoPin, dry, 1, << Issue("error", "Error") >>)
             /\ UNCHANGED <<lp_config, lp_files>>
        ELSE IF how # "ok"
        THEN /\ lp_last' = Command("update", NoPin, dry, 1,
                                   IF how = "RuntimeError" THEN << Issue("error", "Error") >>
                                   ELSE << Issue("error", "Traceback") >>)
             /\ UNCHANGED <<lp_config, lp_files>>
        ELSE IF old_sha = pin.sha
        THEN /\ lp_last' = Command("update", pin, dry, 0, << Issue("ok", "Already up to date.") >>)
             /\ UNCHANGED <<lp_config, lp_files>>
        ELSE IF dry
        THEN /\ lp_last' = Command("update", pin, dry, 0, << Issue("ok", "Would update") >>)
             /\ UNCHANGED <<lp_config, lp_files>>
        ELSE /\ lp_files' = update_files(lp_files, Get(config, "workflows", << >>),
                                         old_sha, old_tag, pin.sha, pin.tag)
             /\ lp_config' = write_config([config EXCEPT !.sha = pin.sha,
                                                         !.tag = pin.tag])
             /\ lp_last' = Command("update", pin, dry, 0, << Issue("ok", "Updated") >>)
  /\ UNCHANGED <<remVars, rsVars, scVars, rnVars, lp_pc>>

\* cli.py:222-238
HasErrors(issues) ==
  \E i \in 1..Len(issues) : issues[i].level = "error"
CmdCheck ==
  /\ lp_pc \in {"empty", "ready"}
  /\ lp_last.cmd # "check"
  /\ lp_prev' = lp_last
  /\ LET issues == check(read_config(lp_config), lp_files)
     IN lp_last' = Command("check", NoPin, FALSE,
                           IF HasErrors(issues) THEN 1 ELSE 0, issues)
  /\ UNCHANGED <<remVars, rsVars, scVars, rnVars, lp_pc, lp_config, lp_files>>

NextLocal ==
  \/ \E pin \in Pins, how \in ResolveOutcomes, langs \in SUBSET Languages,
        preset \in Presets, answer \in Answers :
       CmdInit(pin, how, langs, preset, answer)
  \/ \E pin \in Pins, how \in ResolveOutcomes, dry \in BOOLEAN :
       CmdUpdate(pin, how, dry)
  \/ CmdCheck

SpecLocal == InitLocal /\ [][NextLocal]_vars

\* ------------------------------------------------------------- properties
InfoOf(r) == scan_results[r]
Scanned == scan_results # << >>
Ended == pc \in {"idle", "crashed"} /\ run >= 1
ConfigSha(r) == Get(ConfigOf(r), "sha", "")
ConfigTag(r) == Get(ConfigOf(r), "tag", "")
Substituted == cur.execs["status"] = 1
NamesRepo(msg, r) == "repo" \in DOMAIN msg /\ msg.repo = r

\* C1: for every repo with a declared state, scan_repo sets up_to_date
\* exactly when the declared sha equals the canonical sha, whatever the tags
C1_CurrentIffShaEqual ==
  \A r \in Repos :
    (Scanned /\ ConfigOf(r) # NoConfig) =>
      /\ InfoOf(r).has_config
      /\ InfoOf(r).up_to_date <=> (ConfigSha(r) = latest.sha)

C1_Witness ==
  /\ Scanned
  /\ \E r \in Repos :
       /\ ConfigOf(r) # NoConfig
       /\ ConfigTag(r) # latest.tag
       /\ ConfigSha(r) = latest.sha
       /\ InfoOf(r).up_to_date
  /\ \E r \in Repos :
       /\ ConfigOf(r) # NoConfig
       /\ ConfigTag(r) = latest.tag
       /\ ConfigSha(r) # latest.sha
       /\ ~InfoOf(r).up_to_date

\* C2 (as claimed): when an invocation reported a repo as Opened and the
\* next invocation has the same pin, there is exactly one open request on
\* the branch and the second invocation skipped the repo without executing
\* clone or push
C2_SecondRunSkips ==
  (pc = "idle" /\ prev.valid /\ ~prev.dry /\ ~dry_run /\ prev.pin = latest) =>
    \A r \in prev.opened :
      /\ openPRs[r][BranchName(latest.tag)] = 1
      /\ res[r].outcome = "Skipped"
      /\ ~res[r].touched

\* C3 (as claimed): at most one open review request per (repo, branch)
C3_AtMostOneOpenRequest ==
  \A r \in Repos : \A b \in Branches : openPRs[r][b] <= 1

\* C4: when the query finds an open request on the branch, the repo is
\* reported as skipped and no clone, checkout, add, commit, push or request
\* creation is executed for it
C4_FoundMeansSkipped ==
  cur.found =>
    /\ cur.outcome = "Skipped"
    /\ \A c \in Cmds \ {"query"} : cur.execs[c] = 0
    /\ ~cur.created
    /\ ~cur.pushed
    /\ res[cur.repo] = [outcome |-> "Skipped", failed |-> FALSE, touched |-> FALSE]
    /\ messages # << >>
    /\ messages[Len(messages)] = [kind |-> "Skipped", repo |-> cur.repo]

C4_Witness ==
  /\ cur.found
  /\ openPRs[cur.repo][BranchName(latest.tag)] = 1
  /\ pc = "idle"

\* C5: a repo without declared-state file is classified has_config = FALSE,
\* up_to_date = FALSE with the missing-file issue, and no invocation
\* queries, clones, pushes to or opens a request in it
C5_UnconfiguredUntouched ==
  \A r \in Repos :
    (Scanned /\ ConfigOf(r) = NoConfig) =>
      /\ ~InfoOf(r).has_config
      /\ ~InfoOf(r).up_to_date
      /\ InfoOf(r).issues = << [kind |-> "No .standard.yml found"] >>
      /\ cur.repo # r
      /\ res[r] = NoRes
      /\ \A b \in Branches : openPRs[r][b] = 0
      /\ \A n \in 1..Len(messages) : ~NamesRepo(messages[n], r)

C5_Witness ==
  /\ pc = "idle"
  /\ ~dry_run
  /\ \E r \in Repos : ConfigOf(r) = NoConfig
  /\ \E r \in Repos :
       res[r].outcome = "Opened PR" /\ openPRs[r][BranchName(latest.tag)] = 1

\* C6 (as claimed): when clone, checkout, substitution, add, commit, push or
\* request creation goes wrong for a repo, the repo is reported Failed with
\* that detail, never Opened
RemediationSteps == {"clone", "checkout", "subst", "add", "commit", "push", "create"}
C6_FailureMeansFailed ==
  (cur.outcome # "none" /\ cur.failed \in RemediationSteps) =>
    /\ cur.outcome = "Failed"
    /\ cur.detail = cur.failed

\* C7 (as claimed): when an invocation has ended, every drifted repo after
\* a repo whose query or remediation went wrong has its own outcome
C7_BatchNeverAborted ==
  Ended =>
    \A j \in Repos : \A k \in Repos :
      (j < k /\ res[j].failed /\ Drifted(InfoOf(k))) => res[k].outcome # "none"

\* C8 (as claimed): when the substitution leaves the working copy equal to
\* its base, nothing is committed, pushed or requested and the repo is not
\* reported as Opened
C8_NoDiffIsCurrent ==
  (Substituted /\ cur.failed \in {"none", "query"}
     /\ cur.work = FilesOf(cur.repo)) =>
    /\ cur.execs["commit"] = 0
    /\ cur.execs["push"] = 0
    /\ cur.execs["create"] = 0
    /\ cur.outcome # "Opened PR"

\* C9 (as claimed): the substitution leaves every file outside the artifact
\* surface, and every file that holds neither the old sha nor an old tag
\* marker, as it was
InSurface(p) == p = ConfigPath \/ IsWorkflowFile(p)
HasMarker(bytes, old_sha, old_tag) ==
  \/ old_sha # "" /\ Contains(bytes, ShaTok(old_sha))
  \/ Contains(bytes, CfgTag(old_tag))
  \/ Contains(bytes, WfTag(old_tag))
C9_OnlyMarkedSurfaceFilesChange ==
  Substituted =>
    LET files == FilesOf(cur.repo)
        info == InfoOf(cur.repo)
    IN \A p \in DOMAIN files :
         (~InSurface(p) \/ ~HasMarker(files[p], OldSha(info), OldTag(info)))
           => cur.work[p] = files[p]

\* C10: resolve_tag_sha calls the API tier first and the git tier only when
\* the API tier does not answer, whatever its failure; it fails only when
\* neither tier answers, and then with the git tier's error
ApiAnswers ==
  /\ rs_api.kind = "ok"
  /\ rs_api.tags # << >>
  /\ rs_tag.given => \E n \in 1..Len(rs_api.tags) : rs_api.tags[n].name = rs_tag.name
GitAnswers ==
  /\ rs_git.kind = "ok"
  /\ rs_git.lines # << >>
  /\ rs_tag.given =>
       \E n \in 1..Len(rs_git.lines) : ParseLine(rs_git.lines[n]).name = rs_tag.name
C10_FallbackOnAnyFailure ==
  rs_pc = "done" =>
    /\ rs_calls = IF ApiAnswers THEN <<"api">> ELSE <<"api", "git">>
    /\ rs_result.ok <=> (ApiAnswers \/ GitAnswers)
    /\ ~rs_result.ok => rs_result.tier = "git"

C10_Witness ==
  /\ rs_pc = "done"
  /\ rs_api.kind = "JSONDecodeError"
  /\ rs_calls = <<"api", "git">>
  /\ rs_result.ok
\* the tag a line of git ls-remote --tags is about: the ref without its
\* refs/tags/ prefix and without the ^{} suffix of a peeled line
TrueName(ref) ==
  LET name == SelectSeq(ref, LAMBDA c : c # "refs/tags/")
      n == Len(name)
  IN IF n >= 3 /\ SubSeq(name, n - 2, n) = <<"^", "{", "}">>
     THEN SubSeq(name, 1, n - 3) ELSE name
Newest == rs_world.api[1]

\* C11 (as claimed): without a tag argument, whichever tier answers, the
\* result is the most recently created tag, the first entry of the newest
\* first listing
C11_LatestWhicheverTier ==
  (rs_pc = "done" /\ ~rs_tag.given /\ rs_result.ok) =>
    /\ rs_result.tag = Newest.name
    /\ rs_result.sha = Newest.commit.sha

\* C12 (as claimed): with a tag argument T the result is a pin of the tag
\* named exactly T, and the call fails when no tag of the template
\* repository is named T
ListsExactly(name, sha) ==
  \/ \E n \in 1..Len(rs_world.api) :
       rs_world.api[n].name = name /\ rs_world.api[n].commit.sha = sha
  \/ \E n \in 1..Len(rs_world.git) :
       TrueName(rs_world.git[n].ref) = name /\ rs_world.git[n].sha = sha
C12_ExactTagOrNotFound ==
  (rs_pc = "done" /\ rs_tag.given) =>
    /\ rs_result.ok =>
         rs_result.tag = rs_tag.name /\ ListsExactly(rs_tag.name, rs_result.sha)
    /\ (\A n \in 1..Len(rs_world.api) : rs_world.api[n].name # rs_tag.name)
         => ~rs_result.ok
\* C13: list_org_repos asks the org endpoint first and the user endpoint only
\* after the org endpoint answered 404; any other error ends the call with
\* that error, and a 404 of the user endpoint ends it with owner not found
ListReturned == sc_pc \in {"scan", "done"}
C13_UserEndpointOnlyAfter404 ==
  \A i \in 1..Len(sc_calls) :
    LET c == sc_calls[i]
    IN c.op = "list" =>
         /\ sc_calls[i - 1].op = "resolve" => (c.endpoint = 1 /\ c.url = FirstUrl)
         /\ sc_calls[i - 1].op = "list" =>
              /\ c.endpoint >= sc_calls[i - 1].endpoint
              /\ c.endpoint # sc_calls[i - 1].endpoint =>
                   (sc_calls[i - 1].kind = "404" /\ c.url = FirstUrl)
         /\ c.kind \notin {"ok", "404"} =>
              (i = Len(sc_calls) /\ sc_pc = "raised" /\ sc_error = c.kind)
         /\ (c.kind = "404" /\ c.endpoint = 2) =>
              /\ i = Len(sc_calls)
              /\ sc_pc = "raised"
              /\ sc_error = "RuntimeError: not found as org or user"
         /\ (c.kind = "404" /\ c.endpoint = 1 /\ i < Len(sc_calls)) =>
              (sc_calls[i + 1].op = "list" /\ sc_calls[i + 1].endpoint = 2)

C13_Witness ==
  /\ ListReturned
  /\ sc_world.owner = "user"
  /\ sc_repos # << >>
  /\ \E i \in 1..Len(sc_calls) :
       sc_calls[i].op = "list" /\ sc_calls[i].endpoint = 1 /\ sc_calls[i].kind = "404"

\* C14: when the listing returns, every page was requested, in the order of
\* the next links, and the result names exactly the members that are
\* neither archived nor forks, each once
PageCalls ==
  SelectSeq(sc_calls, LAMBDA c : c.op = "list" /\ c.kind = "ok"
                                  /\ c.endpoint = sc_endpoint)
C14_AllPagesSourcesOnly ==
  ListReturned =>
    /\ [k \in 1..Len(PageCalls) |-> PageCalls[k].url]
         = [k \in 1..Len(PagesOf(sc_world)) |-> k]
    /\ {sc_repos[k].full_name : k \in 1..Len(sc_repos)}
         = {r \in Repos : sc_world.flags[r] = "source"}
    /\ Len(sc_repos) = Cardinality({r \in Repos : sc_world.flags[r] = "source"})

C14_Witness ==
  /\ ListReturned
  /\ Len(PagesOf(sc_world)) >= 2
  /\ Len(PageCalls) >= 2
  /\ \E r \in Repos : sc_world.flags[r] = "fork"
  /\ sc_repos # << >>

\* C15: fetch_standard_config returns None on 404, the parsed declared state
\* of the repo when the file is there, and raises on any other error, which
\* ends the scan with that error
C15_NoneOnlyOn404 ==
  sc_fetch.repo # 0 =>
    /\ sc_fetch.resp = "404" =>
         (sc_fetch.raised = "none" /\ sc_fetch.config = NoConfig)
    /\ sc_fetch.resp = "ok" =>
         /\ sc_fetch.raised = "none"
         /\ sc_fetch.config # NoConfig
         /\ sc_fetch.config = ConfigOf(sc_fetch.repo)
    /\ sc_fetch.resp \notin {"404", "ok"} =>
         /\ sc_fetch.raised = sc_fetch.resp
         /\ sc_pc = "raised"
         /\ sc_error = sc_fetch.resp

C15_Witness ==
  /\ sc_fetch.resp = "500"
  /\ sc_pc = "raised"
  /\ \E i \in 1..Len(sc_calls) : sc_calls[i].op = "fetch" /\ sc_calls[i].kind = "404"

\* C16 (as claimed): when fetching the declared state of one repo fails, the
\* scan still has a result for every other enumerated repo
C16_FetchFailureIsolated ==
  sc_fetch.raised # "none" =>
    \A k \in 1..Len(sc_repos) :
      sc_repos[k].full_name # sc_fetch.repo =>
        \E j \in 1..Len(sc_results) : sc_results[j].repo = sc_repos[k].full_name

\* C17: a scan that returns resolved the canonical pin once, before anything
\* else, and holds one result per enumerated member, in enumeration order,
\* each classified against that pin by the member's own declared state
C17_OneResultPerMemberInOrder ==
  sc_pc = "done" =>
    /\ sc_calls[1].op = "resolve"
    /\ Len(SelectSeq(sc_calls, LAMBDA c : c.op = "resolve")) = 1
    /\ Len(sc_results) = Len(sc_repos)
    /\ \A k \in 1..Len(sc_repos) :
         LET r == sc_repos[k].full_name
         IN /\ sc_results[k].repo = r
            /\ sc_results[k].has_config = (fleet[r] # "Unconfigured")
            /\ sc_results[k].up_to_date =
                 (fleet[r] # "Unconfigured"
                  /\ Get(ConfigOf(r), "sha", "") = sc_latest.sha)

C17_Witness ==
  /\ sc_pc = "done"
  /\ Len(sc_results) >= 2
  /\ sc_results[1].up_to_date
  /\ ~sc_results[2].up_to_date
  /\ sc_results[2].has_config

\* C18: a scanned repo with a declared state has no issue when it is current
\* and otherwise a drift issue naming its declared tag and the canonical tag
C18_DriftIssueNamesBothTags ==
  Scanned =>
    \A r \in Repos :
      InfoOf(r).has_config =>
        /\ InfoOf(r).up_to_date => InfoOf(r).issues = << >>
        /\ ~InfoOf(r).up_to_date =>
             \E n \in 1..Len(InfoOf(r).issues) :
               /\ InfoOf(r).issues[n].kind = "SHA drift"
               /\ InfoOf(r).issues[n].from = Get(ConfigOf(r), "tag", "")
               /\ InfoOf(r).issues[n].to = latest.tag

C18_Witness ==
  /\ Scanned
  /\ latest.tag = "v2"
  /\ \E r \in Repos :
       /\ InfoOf(r).has_config
       /\ ~InfoOf(r).up_to_date
       /\ InfoOf(r).issues = << [kind |-> "SHA drift", from |-> "v0", to |-> "v2"] >>
\* C19: two calls of generate_workflow with equal workflow, sha, tag and
\* inputs mapping return the same lines, whatever the insertion order of the
\* mapping and whatever was generated in between
SameMapping(a, b) ==
  /\ Len(a) = Len(b)
  /\ \A i \in 1..Len(a) : Has(b, a[i].k) /\ PyEq(At(b, a[i].k), a[i].v)
C19_EqualArgumentsEqualOutput ==
  (rn_pc = "done" /\ SameMapping(rn_inputs, rn_inputs2)) => rn_out2 = rn_out

C19_Witness ==
  /\ rn_pc = "done"
  /\ rn_other # << >>
  /\ rn_inputs2 # rn_inputs
  /\ SameMapping(rn_inputs, rn_inputs2)
  /\ Len(SelectSeq(rn_out, LAMBDA l : l.kind = "with")) >= 2

\* C20 (as claimed): the output has a line for every required input: the
\* caller's value when a non-empty one is supplied, the placeholder when the
\* key is absent or its value is empty
Emits(out, key, value) ==
  \E i \in 1..Len(out) :
    /\ out[i].kind = "with"
    /\ out[i].key = key
    /\ ~out[i].todo
    /\ out[i].text = yaml_value(value).text
EmitsPlaceholder(out, key) ==
  \E i \in 1..Len(out) : out[i].kind = "with" /\ out[i].key = key /\ out[i].todo
IsEmpty(value) == value.type = "str" /\ value.s = << >>
C20_RequiredAlwaysEmitted ==
  rn_pc # "ready" =>
    LET required == ALL_WORKFLOWS(rn_name).required_inputs
    IN \A n \in 1..Len(required) :
         LET key == required[n].k
         IN IF Has(rn_inputs, key) /\ ~IsEmpty(At(rn_inputs, key))
            THEN Emits(rn_out, key, At(rn_inputs, key))
            ELSE EmitsPlaceholder(rn_out, key)
\* C21 (as claimed): an optional input has a line in the output exactly when
\* the caller supplied a value that differs from the default, where a str
\* spelling a bool equals that bool
HasInputLine(out, key) ==
  \E i \in 1..Len(out) : out[i].kind = "with" /\ out[i].key = key
Spells(value) ==
  IF value.type = "bool" THEN (IF value.b THEN <<"true">> ELSE <<"false">>)
  ELSE value.s
CoercedEq(a, b) ==
  IF a.type = b.type THEN PyEq(a, b) ELSE Spells(a) = Spells(b)
C21_OptionalIffDiffersFromDefault ==
  rn_pc # "ready" =>
    LET optional == ALL_WORKFLOWS(rn_name).optional_inputs
    IN \A n \in 1..Len(optional) :
         HasInputLine(rn_out, optional[n].k)
           <=> (Has(rn_inputs, optional[n].k)
                /\ ~CoercedEq(At(rn_inputs, optional[n].k), optional[n].v.default))

\* C22: the permission lines are the base permissions and the grants of
\* every conditional entry whose trigger is in inputs with a value other
\* than False and the empty string, each permission name once
PermLines(out) == SelectSeq(out, LAMBDA l : l.kind = "perm")
Triggered(extra) ==
  /\ Has(rn_inputs, extra.k)
  /\ At(rn_inputs, extra.k) \notin {Bool(FALSE), Str(<< >>)}
C22_BasePlusTriggeredGrants ==
  rn_pc # "ready" =>
    LET wf == ALL_WORKFLOWS(rn_name)
        lines == PermLines(rn_out)
        base == {<<wf.permissions[i].k, wf.permissions[i].v>> :
                   i \in 1..Len(wf.permissions)}
        granted == UNION {{<<wf.extra_permissions_if[e].v[i].k,
                             wf.extra_permissions_if[e].v[i].v>> :
                             i \in 1..Len(wf.extra_permissions_if[e].v)} :
                          e \in {e \in 1..Len(wf.extra_permissions_if) :
                                   Triggered(wf.extra_permissions_if[e])}}
    IN /\ {<<lines[i].key, lines[i].text[1]>> : i \in 1..Len(lines)}
            = base \cup granted
       /\ \A i, j \in 1..Len(lines) : lines[i].key = lines[j].key => i = j

C22_Witness ==
  /\ rn_pc # "ready"
  /\ rn_name = CppQualityName
  /\ Has(rn_inputs, "enable_sarif")
  /\ At(rn_inputs, "enable_sarif") = Bool(TRUE)
  /\ \E i \in 1..Len(rn_out) :
       rn_out[i].kind = "perm" /\ rn_out[i].key = "security-events"
\* the repos that are configured and drifted, in scan order
NeedsUpdate(r) == ConfigOf(r) # NoConfig /\ ConfigSha(r) # latest.sha
DriftedRepos == SelectSeq([r \in 1..NumRepos |-> r], NeedsUpdate)

\* C23: a dry run executes no query, clone, push or request creation, and
\* returns one Would update message per configured and drifted repo, in scan
\* order, and no message naming another repo
C23_DryRunOnlyReports ==
  (dry_run /\ run >= 1) =>
    /\ pc # "crashed"
    /\ cur = NoCur
    /\ \A r \in Repos : ~res[r].touched /\ ~res[r].failed
    /\ pc = "idle" =>
         messages = IF DriftedRepos = << >>
                    THEN << [kind |-> "All repos are up to date"] >>
                    ELSE [k \in 1..Len(DriftedRepos) |->
                            [kind |-> "Would update", repo |-> DriftedRepos[k]]]

C23_Witness ==
  /\ dry_run
  /\ pc = "idle"
  /\ messages = << [kind |-> "Would update", repo |-> 2] >>
  /\ ConfigOf(1) # NoConfig
  /\ ConfigSha(1) = latest.sha

\* C26 (as claimed): a run that is not dry ends with one Opened PR, Skipped
\* or Failed message per configured and drifted repo, in scan order, and
\* with the single All repos are up to date message when there is none
C26_OneStatusPerDriftedRepo ==
  (Ended /\ ~dry_run) =>
    IF DriftedRepos = << >>
    THEN messages = << [kind |-> "All repos are up to date"] >>
    ELSE /\ Len(messages) = Len(DriftedRepos)
         /\ \A k \in 1..Len(DriftedRepos) :
              /\ messages[k].kind \in {"Opened PR", "Skipped", "Failed"}
              /\ messages[k].repo = DriftedRepos[k]

\* C28 (as claimed): within the remediation of a repo, clone, checkout, add,
\* commit and push are each executed at most once
C28_CommandsExecutedAtMostOnce ==
  \A c \in CheckedCmds : cur.execs[c] <= 1
\* C24 (as claimed): when version resolution or fleet enumeration fails,
\* the command ends with the top-level error message and a non-zero status,
\* and without a per-repo result
FailedBeforeScan ==
  /\ sc_pc = "raised"
  /\ sc_calls[Len(sc_calls)].op \in {"resolve", "list"}
C24_FatalErrorsReported ==
  (sc_exit # NoExit /\ FailedBeforeScan) =>
    /\ sc_exit.code # 0
    /\ sc_exit.output = "Error"
    /\ sc_results = << >>

\* C29 (as claimed): for a tag listed by both sources, the sha resolved for
\* it is the commit sha the API lists, whichever tier answered
ApiSha(name) ==
  rs_world.api[CHOOSE n \in 1..Len(rs_world.api) : rs_world.api[n].name = name].commit.sha
ListedByBoth(name) ==
  /\ \E n \in 1..Len(rs_world.api) : rs_world.api[n].name = name
  /\ \E n \in 1..Len(rs_world.git) : TrueName(rs_world.git[n].ref) = name
C29_TiersAgreeOnSha ==
  (rs_pc = "done" /\ rs_tag.given /\ ListedByBoth(rs_tag.name) /\ rs_result.ok) =>
    rs_result.sha = ApiSha(rs_tag.name)

\* C30: when the listing returns, the collected items are the pages of the
\* endpoint that answered last, each once: the items of an endpoint that
\* answered 404 on a later page are not among them
RECURSIVE Flatten(_)
Flatten(pages) ==
  IF pages = << >> THEN << >> ELSE Head(pages).data \o Flatten(Tail(pages))
C30_NoMixedEndpoints ==
  ListReturned =>
    /\ sc_items = Flatten(PagesOf(sc_world))
    /\ \A i \in 1..Len(sc_calls) :
         (sc_calls[i].op = "list" /\ sc_calls[i].kind = "404")
           => sc_calls[i].endpoint # sc_endpoint

C30_Witness ==
  /\ ListReturned
  /\ sc_endpoint = 2
  /\ \E i \in 1..Len(sc_calls) : \E j \in 1..Len(sc_calls) :
       /\ i < j
       /\ sc_calls[i].op = "list" /\ sc_calls[i].endpoint = 1 /\ sc_calls[i].kind = "ok"
       /\ sc_calls[j].op = "list" /\ sc_calls[j].endpoint = 1 /\ sc_calls[j].kind = "404"

\* C25: a local update whose resolved sha differs from the declared one
\* and that is not a dry run leaves .standard.yml declaring the new sha and
\* tag, and every enabled workflow file that contained the old sha
\* containing the new one and the old one nowhere; a dry run, or an update
\* to the sha already declared (a second update to the same version
\* included), changes no file
Resolved(c) == c.cmd = "update" /\ c.exit = 0 /\ c.pin # NoPin
Changing(c) == Resolved(c) /\ ~c.dry /\ c.config.sha # c.pin.sha
EnabledFiles(c) ==
  {ALL_WORKFLOWS(n).filename : n \in Range(c.config.workflows)} \cap DOMAIN c.files
C25_LocalUpdateRewritesPins ==
  Resolved(lp_last) =>
    IF Changing(lp_last)
    THEN /\ lp_config.sha = lp_last.pin.sha
         /\ lp_config.tag = lp_last.pin.tag
         /\ \A f \in EnabledFiles(lp_last) :
              ContainsSha(lp_last.files[f], lp_last.config.sha)
                => /\ ContainsSha(lp_files[f], lp_last.pin.sha)
                   /\ ~ContainsSha(lp_files[f], lp_last.config.sha)
    ELSE /\ lp_config = lp_last.config
         /\ lp_files = lp_last.files
C25_Witness ==
  /\ Changing(lp_last)
  /\ Len(lp_last.config.workflows) > 1
  /\ \A f \in EnabledFiles(lp_last) : ContainsSha(lp_last.files[f], lp_last.config.sha)
C25_SecondUpdateWitness ==
  /\ Changing(lp_prev)
  /\ Resolved(lp_last) /\ ~lp_last.dry /\ lp_last.pin = lp_prev.pin

\* C27: after init, and after any sequence of successful updates, the sha
\* every enabled workflow file is pinned to is the sha .standard.yml
\* declares, so check reports neither an error nor a warning
PinnedTo(content, ref_path) == FileSha(content, ref_path).sha
C27_InitAndUpdateKeepCheckClean ==
  lp_pc = "ready" =>
    /\ \A n \in Range(lp_config.workflows) :
         /\ ALL_WORKFLOWS(n).filename \in DOMAIN lp_files
         /\ PinnedTo(lp_files[ALL_WORKFLOWS(n).filename], ALL_WORKFLOWS(n).ref_path)
              = lp_config.sha
    /\ lp_last.cmd = "check" =>
         \A i \in 1..Len(lp_last.output) : lp_last.output[i].level = "ok"
C27_Witness ==
  /\ lp_last.cmd = "check"
  /\ Changing(lp_prev)
  /\ Len(lp_config.workflows) > 1
  /\ lp_last.exit = 0

====
